---- MODULE Spec2Model ----
(***************************************************************************)
(* Model of src/app.py: "Rayan: AI Immigration Assistant", a Streamlit     *)
(* script.  Streamlit runs main() from top to bottom once per user         *)
(* interaction (a "script run"); st.session_state survives between runs.   *)
(* A script run is modelled as a sequence of steps (pc), one per block of  *)
(* main(); the remote model (chat.send_message) answers or raises          *)
(* nondeterministically.                                                   *)
(***************************************************************************)
EXTENDS Integers, Sequences, FiniteSets, TLC

\* -------------------------------------------------------------- state ----
VARIABLES
    env,            \* what initialize_client finds: the GEMINI_API_KEY variable
                    \* and whether genai.Client(...) raises
    ss,             \* st.session_state: a function from the keys set so far
    chats,          \* the chat objects client.chats.create made: their histories
    uploaded_file,  \* the file_uploader widget's value (NoFile or a file)
    rendered,       \* the input widgets the last run put on the page
    pc,             \* where the current script run is ("idle": no run)
    button,         \* this run: st.button(...) was clicked
    prompt,         \* this run: st.chat_input(...)'s value (None or a prompt)
    response,       \* this run: the response of chat.send_message(prompt)
    calls,          \* this run: response.function_calls still to be handled
    args,           \* this run: dict(func_call.args) of the call being handled
    tool_output,    \* this run: the value calculate_crs_score returned
    status,         \* how the last run ended
    trace,          \* this run: the st.* outputs and send_message calls, in order
    since_press,    \* extraction send_messages since the last Analyze click
    last_extract,   \* outcome of the last extraction since the last Analyze click
    tool_log        \* every (args, result) calculate_crs_score was run with

vars == << env, ss, chats, uploaded_file, rendered, pc, button, prompt, response,
           calls, args, tool_output, status, trace, since_press,
           last_extract, tool_log >>

run_vars == << button, prompt, response, calls, args >>
ghost_vars == << since_press, last_extract, tool_log >>

\* ------------------------------------------------------------- bounds ----
\* The user stops chatting and analysing once the chat history has this many
\* messages (the history itself may end a little longer).
MaxHistory == 6
\* Longest function_calls list of one model response.
MaxCalls == 2
\* Largest experience_years and language_score_clb tried on calculate_crs_score.
MaxYears == 7
MaxCLB == 11

\* ------------------------------------------------------------ values ----
\* Python's None where a string or bytes value may stand.
None == "<None>"
\* No file in the file_uploader (its value is None).
NoFile == [name |-> None, data |-> None]
\* No response, no arguments and no tool output yet (locals not yet bound).
NoResponse == [text |-> None, function_calls |-> << >>]
NoArgs == [x \in {} |-> None]
NoOutput == [calculated_score |-> 0, note |-> None]

\* Python truthiness of a bytes-or-None value (lines 16, 129).
Truthy(v) == v # None /\ v # ""

\* `sub in s` for Python strings (lines 59, 61).
Contains(sub, s) ==
    \E i \in 1..(Len(s) - Len(sub) + 1) : SubSeq(s, i, i + Len(sub) - 1) = sub

\* Index of the last "." of s at or before i, 0 when there is none.
RECURSIVE LastDot(_, _)
LastDot(s, i) ==
    IF i = 0 THEN 0
    ELSE IF SubSeq(s, i, i) = "." THEN i ELSE LastDot(s, i - 1)

\* name.split('.')[-1] (line 124).
LastDotPart(name) == SubSeq(name, LastDot(name, Len(name)) + 1, Len(name))

\* f"application/{uploaded_file.name.split('.')[-1]}" (line 124).
MimeTypeOf(name) == "application/" \o LastDotPart(name)

\* The files the user may put into the file_uploader (type pdf, docx, txt);
\* an uploaded file may be empty.
Files ==
    { [name |-> "wes.report.pdf", data |-> "%PDF-1.7"],
      [name |-> "empty.txt", data |-> ""] }

Prompts == { "What is my estimated CRS score?" }

\* Keyword arguments the remote model may put into a function call.  The last
\* one lacks two required parameters: calculate_crs_score(**args) raises
\* TypeError on it.
GoodArgs ==
    { [education |-> "Master's degree", experience_years |-> 6,
       language_score_clb |-> 9],
      [education |-> "Bachelor's degree", experience_years |-> 3,
       language_score_clb |-> 7] }
BadArgs == { [education |-> "PhD"] }

ToolName == "calculate_crs_score"
\* A function name the model may answer with that is not the registered tool's.
OtherName == "estimate_crs_score"

FunctionCalls ==
    { [name |-> ToolName, args |-> a] : a \in GoodArgs \cup BadArgs }
        \cup { [name |-> OtherName, args |-> a] :
                 a \in { g \in GoodArgs : g.experience_years = 6 } }

\* Non-empty function_calls lists of at most MaxCalls calls.
RECURSIVE CallLists(_)
CallLists(n) ==
    IF n = 0 THEN { <<>> }
    ELSE LET shorter == CallLists(n - 1)
         IN  shorter \cup { Append(l, c) : l \in { s \in shorter : Len(s) = n - 1 },
                                           c \in FunctionCalls }

\* What chat.send_message(prompt) may return (line 203): a response with text
\* and, possibly, function calls.
ChatResponses ==
    { [text |-> "answer", function_calls |-> l] : l \in CallLists(MaxCalls) }

\* Inputs tried on calculate_crs_score as a pure function.
Educations ==
    { "Master's degree", "PhD", "Bachelor's degree",
      "Bachelor of Science, Master's degree", "PhD after Bachelor",
      "High school diploma", "master", "" }
Years == (-2)..MaxYears
CLBs == (-2)..MaxCLB

\* ------------------------------------------------ calculate_crs_score ----
Min(a, b) == IF a <= b THEN a ELSE b

\* 1. Education points (lines 59-64).
EducationPoints(education) ==
    IF Contains("Master", education) \/ Contains("PhD", education) THEN 135
    ELSE IF Contains("Bachelor", education) THEN 120
    ELSE 30

\* The experience points, as if line 68 had no min(..., 5).
ExperiencePoints_Uncapped(experience_years) == experience_years * 15

\* 2. Experience points (line 68).
ExperiencePoints(experience_years) == Min(experience_years, 5) * 15

\* 3. Language points (lines 72-75).
LanguagePoints(language_score_clb) ==
    IF language_score_clb >= 9 THEN language_score_clb * 10
    ELSE language_score_clb * 5

CrsNote == "CRS score is a simplified estimate for project demonstration only."

\* calculate_crs_score, as if score were a module-level variable that line 56
\* does not reset: it starts from the score of the call before.
calculate_crs_score_KeepsScore(education, experience_years, language_score_clb) ==
    LET s0 == tool_output.calculated_score
        s1 == s0 + EducationPoints(education)
        s2 == s1 + ExperiencePoints(experience_years)
        s3 == s2 + LanguagePoints(language_score_clb)
    IN  [calculated_score |-> s3, note |-> CrsNote]

\* calculate_crs_score (lines 45-77): score starts at 0 and each part is added.
calculate_crs_score(education, experience_years, language_score_clb) ==
    LET s0 == 0
        s1 == s0 + EducationPoints(education)
        s2 == s1 + ExperiencePoints(experience_years)
        s3 == s2 + LanguagePoints(language_score_clb)
    IN  [calculated_score |-> s3, note |-> CrsNote]

\* The parameters of calculate_crs_score: calculate_crs_score(**args) raises
\* TypeError unless args gives exactly these (line 216).
ToolParams == { "education", "experience_years", "language_score_clb" }

\* ------------------------------------------------------ state helpers ----
\* One entry of trace.
Ev(ev, a, b) == [ev |-> ev, a |-> a, b |-> b]

\* s with key k set to v: st.session_state.k = v.
SetKey(s, k, v) == [x \in DOMAIN s \cup {k} |-> IF x = k THEN v ELSE s[x]]

EmptySession == [x \in {} |-> None]

\* A message of a chat's history: its role and what its first part is.
Msg(role, part) == [role |-> role, part |-> part]

Envs == { "key_missing", "key_empty", "client_raises", "ok" }

Init ==
    /\ env \in Envs
    /\ ss = EmptySession
    /\ chats = << >>
    /\ uploaded_file = NoFile
    /\ rendered = {}
    /\ pc = "start"
    /\ button = FALSE
    /\ prompt = None
    /\ response = NoResponse
    /\ calls = << >>
    /\ args = NoArgs
    /\ tool_output = NoOutput
    /\ status = "running"
    /\ trace = << >>
    /\ since_press = 0
    /\ last_extract = "none"
    /\ tool_log = {}

\* --------------------------------------------------- initialize_client ----
\* os.environ.get("GEMINI_API_KEY") (line 15).
ApiKey(e) ==
    CASE e = "key_missing" -> None
      [] e = "key_empty" -> ""
      [] OTHER -> "secret-key"

\* initialize_client, as if line 16 read `if api_key is None`.
initialize_client_NoneOnly(e) ==
    IF ApiKey(e) = None
    THEN [client |-> FALSE, out |-> << Ev("error", "API Key not found", "") >>]
    ELSE IF e = "client_raises"
    THEN [client |-> FALSE,
          out |-> << Ev("error", "Error initializing Gemini Client", "") >>]
    ELSE [client |-> TRUE,
          out |-> << Ev("sidebar.success", "Gemini Client initialized.", "") >>]

\* initialize_client (lines 11-29): whether a client is returned, and what it
\* puts on the page.
initialize_client(e) ==
    IF ~Truthy(ApiKey(e))
    THEN [client |-> FALSE, out |-> << Ev("error", "API Key not found", "") >>]
    ELSE IF e = "client_raises"
    THEN [client |-> FALSE,
          out |-> << Ev("error", "Error initializing Gemini Client", "") >>]
    ELSE [client |-> TRUE,
          out |-> << Ev("sidebar.success", "Gemini Client initialized.", "") >>]

\* ------------------------------------------------------ session state ----
\* The session state, as if line 93 did not look for 'chat' in it.
SessionInit_EveryRun(s, c) ==
    [ss |-> SetKey(SetKey(SetKey(s, "chat", Len(c) + 1),
                          "extraction_done", FALSE),
                   "uploaded_file_bytes", None),
     chats |-> Append(c, << >>)]

\* Lines 93-100: the chat session and the two flags, set once per session.
SessionInit(s, c) ==
    IF "chat" \in DOMAIN s
    THEN [ss |-> s, chats |-> c]
    ELSE [ss |-> SetKey(SetKey(SetKey(s, "chat", Len(c) + 1),
                               "extraction_done", FALSE),
                        "uploaded_file_bytes", None),
          chats |-> Append(c, << >>)]

\* The click, as if line 124 were left out.
AnalyzeClicked_NoMimeType(s, f) ==
    SetKey(SetKey(SetKey(s, "uploaded_file_bytes", f.data),
                  "extraction_done", FALSE),
           "uploaded_file_name", f.name)

\* Lines 121-125: 'Analyze Document for Extraction' clicked with file f uploaded.
AnalyzeClicked(s, f) ==
    SetKey(SetKey(SetKey(SetKey(s, "uploaded_file_bytes", f.data),
                         "extraction_done", FALSE),
                  "uploaded_mime_type", MimeTypeOf(f.name)),
           "uploaded_file_name", f.name)

\* The extraction is due, as if line 129 did not look at extraction_done.
ExtractionDue_IgnoresFlag(s) == Truthy(s["uploaded_file_bytes"])

\* Line 129: the extraction is due.
ExtractionDue(s) == Truthy(s["uploaded_file_bytes"]) /\ ~s["extraction_done"]

\* Line 166: the extraction succeeded.
ExtractionSucceeded(s) == SetKey(s, "extraction_done", TRUE)

\* The extraction failed, as if line 171 were left out.
ExtractionFailed_KeepsFile(s) == s

\* Line 171: the extraction failed.
ExtractionFailed(s) == SetKey(s, "uploaded_file_bytes", None)

\* The history of the session's chat (chat.get_history()).
History == chats[ss["chat"]]

\* chat.send_message succeeded: the chat records the turn (what was sent, what
\* the model answered).
Recorded(c, id, sent, answer) ==
    [c EXCEPT ![id] = @ \o << Msg("user", sent), Msg("model", answer) >>]

\* Lines 179-192: one message of the history, as displayed.
RenderMessage(m) ==
    IF m.role \in { "user", "model" }
    THEN << Ev("chat_message", IF m.role = "user" THEN "user" ELSE "assistant",
               "history"),
            IF m.part = "function_call"
            THEN Ev("json", "function_call", "history")
            ELSE IF m.part = "function_response"
            THEN Ev("json", "function_response", "history")
            ELSE Ev("markdown", "text", "history") >>
    ELSE << >>

\* Lines 177-192: the whole history, as displayed.
RECURSIVE RenderHistory(_)
RenderHistory(h) ==
    IF h = << >> THEN << >>
    ELSE RenderMessage(Head(h)) \o RenderHistory(Tail(h))

\* ---------------------------------------------------------- user events ----
\* Streamlit starts a script run: the widgets' values of this run, an empty page.
StartRun(b, p) ==
    /\ pc' = "start"
    /\ button' = b
    /\ prompt' = p
    /\ response' = NoResponse
    /\ calls' = << >>
    /\ args' = NoArgs
    /\ tool_output' = NoOutput
    /\ status' = "running"
    /\ trace' = << >>
    /\ rendered' = {}

\* The page is loaded, or the user asks for a rerun.
PageRerun ==
    /\ pc = "idle"
    /\ StartRun(FALSE, None)
    /\ UNCHANGED << env, ss, chats, uploaded_file, ghost_vars >>

\* The user puts a file into the file_uploader, or removes it (line 105).
UploadFile ==
    /\ pc = "idle"
    /\ "file_uploader" \in rendered
    /\ \E f \in (Files \cup {NoFile}) \ {uploaded_file} : uploaded_file' = f
    /\ StartRun(FALSE, None)
    /\ UNCHANGED << env, ss, chats, ghost_vars >>

\* The user clicks 'Analyze Document for Extraction' (line 120).
ClickAnalyze ==
    /\ pc = "idle"
    /\ "button" \in rendered
    /\ Len(History) < MaxHistory
    /\ StartRun(TRUE, None)
    /\ UNCHANGED << env, ss, chats, uploaded_file, ghost_vars >>

\* The user submits a chat input (line 195).
SubmitChat ==
    /\ pc = "idle"
    /\ "chat_input" \in rendered
    /\ Len(History) < MaxHistory
    /\ \E p \in Prompts : StartRun(FALSE, p)
    /\ UNCHANGED << env, ss, chats, uploaded_file, ghost_vars >>

\* st.rerun() (line 126): the run was stopped and the script runs again, the
\* button no longer clicked.
ScriptRerun ==
    /\ pc = "rerun"
    /\ StartRun(FALSE, None)
    /\ UNCHANGED << env, ss, chats, uploaded_file, ghost_vars >>

\* ------------------------------------------------------------ main() ----
\* main() returns, or an exception leaves it: the run is over.
EndRun(how, out) ==
    /\ pc' = "idle"
    /\ status' = how
    /\ trace' = trace \o out

\* An exception no handler of main() catches.
Escapes(type, out) ==
    EndRun("exception", out \o << Ev("uncaught_exception", type, "") >>)

\* Lines 84-126: the client, the session state, the sidebar.
Start ==
    /\ pc = "start"
    /\ LET ic == initialize_client(env)
           si == SessionInit(ss, chats)
       IN  IF ~ic.client
           THEN /\ EndRun("returned", ic.out)
                /\ UNCHANGED << ss, chats, rendered, ghost_vars >>
           ELSE /\ chats' = si.chats
                /\ rendered' = {"file_uploader"} \cup
                       (IF uploaded_file # NoFile THEN {"button"} ELSE {})
                /\ trace' = trace \o ic.out
                /\ IF uploaded_file # NoFile /\ button
                   THEN /\ ss' = AnalyzeClicked(si.ss, uploaded_file)
                        /\ pc' = "rerun"
                        /\ status' = "rerun"
                        /\ since_press' = 0
                        /\ last_extract' = "none"
                        /\ UNCHANGED tool_log
                   ELSE /\ ss' = si.ss
                        /\ pc' = "extract"
                        /\ UNCHANGED << status, ghost_vars >>
    /\ UNCHANGED << env, uploaded_file, run_vars, tool_output >>

\* What st.session_state.chat.send_message may do with the document (line 148):
\* raise, answer with text json.loads rejects, answer with JSON.
ExtractionOutcomes == { "raise", "not_json", "json" }

\* Lines 129-171: the document extraction.
Extract ==
    /\ pc = "extract"
    /\ IF ~ExtractionDue(ss)
       THEN /\ pc' = "chat"
            /\ UNCHANGED << ss, chats, status, trace, ghost_vars >>
       ELSE IF ~({"uploaded_mime_type", "uploaded_file_name"} \subseteq DOMAIN ss)
       THEN /\ Escapes("AttributeError", << >>)
            /\ UNCHANGED << ss, chats, ghost_vars >>
       ELSE \E o \in ExtractionOutcomes :
            /\ since_press' = since_press + 1
            /\ last_extract' = IF o = "json" THEN "ok" ELSE "failed"
            /\ chats' = IF o = "raise" THEN chats
                        ELSE Recorded(chats, ss["chat"], "text", "text")
            /\ ss' = IF o = "json" THEN ExtractionSucceeded(ss)
                     ELSE ExtractionFailed(ss)
            /\ trace' = trace \o
                 CASE o = "raise" ->
                        << Ev("send_message", "extraction", "raise"),
                           Ev("error", "Error during document analysis", ""),
                           Ev("warning", "Please try uploading a different document", "") >>
                   [] o = "not_json" ->
                        << Ev("send_message", "extraction", "ok"),
                           Ev("success", "Structured Data Extracted Successfully!", ""),
                           Ev("error", "Error during document analysis", ""),
                           Ev("warning", "Please try uploading a different document", "") >>
                   [] OTHER ->
                        << Ev("send_message", "extraction", "ok"),
                           Ev("success", "Structured Data Extracted Successfully!", ""),
                           Ev("json", "extracted_data", "") >>
            /\ pc' = "chat"
            /\ UNCHANGED << status, tool_log >>
    /\ UNCHANGED << env, uploaded_file, rendered, run_vars, tool_output >>

\* What the model's answer is recorded as in the history.
AnswerPart(r) == IF r.function_calls # << >> THEN "function_call" ELSE "text"

\* Lines 174-203: the history, the chat input, the prompt sent to the model.
Chat ==
    /\ pc = "chat"
    /\ rendered' = rendered \cup {"chat_input"}
    /\ LET shown == << Ev("markdown", "---", "") >> \o RenderHistory(History)
       IN  IF prompt = None
           THEN /\ EndRun("ok", shown)
                /\ UNCHANGED << chats, response >>
           ELSE LET asked == shown \o << Ev("chat_message", "user", "prompt") >>
                IN  \/ /\ Escapes("APIError",
                                  asked \o << Ev("send_message", "chat", "raise") >>)
                       /\ UNCHANGED << chats, response >>
                    \/ \E r \in ChatResponses :
                       /\ response' = r
                       /\ chats' = Recorded(chats, ss["chat"], "text", AnswerPart(r))
                       /\ trace' = trace \o asked \o
                                       << Ev("send_message", "chat", "ok") >>
                       /\ pc' = "respond"
                       /\ UNCHANGED status
    /\ UNCHANGED << env, ss, uploaded_file, button, prompt, calls, args,
                    tool_output, ghost_vars >>

\* Lines 206-208 and 229-232: the branch on response.function_calls.
Respond ==
    /\ pc = "respond"
    /\ IF response.function_calls # << >>
       THEN /\ calls' = response.function_calls
            /\ pc' = "calls"
            /\ UNCHANGED << status, trace >>
       ELSE /\ EndRun("ok", << Ev("chat_message", "assistant", "response") >>)
            /\ UNCHANGED calls
    /\ UNCHANGED << env, ss, chats, uploaded_file, rendered, button, prompt,
                    response, args, tool_output, ghost_vars >>

\* The call names the registered tool, as if the check of line 210 were left out.
IsToolCall_AnyName(fc) == TRUE

\* Line 210: the call names the registered tool.
IsToolCall(fc) == fc.name = ToolName

\* Lines 208-212: the next function call of the response.
NextCall ==
    /\ pc = "calls"
    /\ IF calls = << >>
       THEN /\ EndRun("ok", << >>)
            /\ UNCHANGED << calls, args >>
       ELSE /\ calls' = Tail(calls)
            /\ IF IsToolCall(Head(calls))
               THEN /\ args' = Head(calls).args
                    /\ trace' = trace \o
                         << Ev("info", "The assistant is calculating the CRS score", "") >>
                    /\ pc' = "exec"
                    /\ UNCHANGED status
               ELSE UNCHANGED << args, trace, pc, status >>
    /\ UNCHANGED << env, ss, chats, uploaded_file, rendered, button, prompt,
                    response, tool_output, ghost_vars >>

\* Line 216: tool_output = calculate_crs_score(**args).
ExecTool ==
    /\ pc = "exec"
    /\ IF DOMAIN args # ToolParams
       THEN /\ Escapes("TypeError", << >>)
            /\ UNCHANGED << tool_output, tool_log >>
       ELSE /\ tool_output' = calculate_crs_score(args.education,
                                                  args.experience_years,
                                                  args.language_score_clb)
            /\ tool_log' = tool_log \cup { [args |-> args, out |-> tool_output'] }
            /\ trace' = trace \o << Ev("call", ToolName, "") >>
            /\ pc' = "tool_send"
            /\ UNCHANGED status
    /\ UNCHANGED << env, ss, chats, uploaded_file, rendered, run_vars,
                    since_press, last_extract >>

\* Lines 219-227: the tool output sent back, the model's summary displayed.
SendToolOutput ==
    /\ pc = "tool_send"
    /\ \/ /\ Escapes("APIError", << Ev("send_message", "tool", "raise") >>)
          /\ UNCHANGED chats
       \/ /\ chats' = Recorded(chats, ss["chat"], "function_response", "text")
          /\ trace' = trace \o << Ev("send_message", "tool", "ok"),
                                  Ev("chat_message", "assistant", "tool_response") >>
          /\ pc' = "calls"
          /\ UNCHANGED status
    /\ UNCHANGED << env, ss, uploaded_file, rendered, run_vars, tool_output,
                    ghost_vars >>

Next ==
    \/ PageRerun
    \/ UploadFile
    \/ ClickAnalyze
    \/ SubmitChat
    \/ ScriptRerun
    \/ Start
    \/ Extract
    \/ Chat
    \/ Respond
    \/ NextCall
    \/ ExecTool
    \/ SendToolOutput

Spec == Init /\ [][Next]_vars

\* calculate_crs_score as a pure function: the arguments are drawn, ExecTool
\* applies it.
InitCRS ==
    /\ env = "ok"
    /\ ss = EmptySession
    /\ chats = << >>
    /\ uploaded_file = NoFile
    /\ rendered = {}
    /\ pc = "exec"
    /\ button = FALSE
    /\ prompt = None
    /\ response = NoResponse
    /\ calls = << >>
    /\ args \in [education : Educations, experience_years : Years,
                 language_score_clb : CLBs]
    /\ tool_output = NoOutput
    /\ status = "running"
    /\ trace = << >>
    /\ since_press = 0
    /\ last_extract = "none"
    /\ tool_log = {}

SpecCRS == InitCRS /\ [][ExecTool]_vars

\* ---------------------------------------------------- reading the trace ----
RunOver == pc = "idle"

\* The trace entries that are e.
Count(e) == Cardinality({ i \in 1..Len(trace) : trace[i] = e })

Shown(e) == Count(e) > 0

\* The send_message calls of this run that raised.
RemoteFailures ==
    { i \in 1..Len(trace) : trace[i].ev = "send_message" /\ trace[i].b = "raise" }

ErrorShown == \E i \in 1..Len(trace) : trace[i].ev = "error"

ExtractionSends ==
    Count(Ev("send_message", "extraction", "ok"))
        + Count(Ev("send_message", "extraction", "raise"))

ToolRuns == Count(Ev("call", ToolName, ""))

\* The calls of l that name the registered tool.
Named(l) == Cardinality({ i \in 1..Len(l) : l[i].name = ToolName })

IsPrefix(s, t) == Len(s) <= Len(t) /\ SubSeq(t, 1, Len(s)) = s

\* 'Analyze Document for Extraction' has been clicked in this session (only
\* the click sets uploaded_mime_type).
Analyzed == "uploaded_mime_type" \in DOMAIN ss

\* The run is past its extraction step.
PastExtraction == pc \notin { "start", "rerun", "extract" }

\* ------------------------------------------------------------- claims ----

\* C1: every failure of a remote model call made by main() (the extraction
\* send_message, the chat-prompt send_message, the send_message returning a
\* tool result) ends the run with an error message displayed and no exception
\* escaped from main().
C1_RemoteFailureSurfaced ==
    (RunOver /\ RemoteFailures # {}) => (status # "exception" /\ ErrorShown)

\* C2: for every chat input, when all remote calls succeed, the run ends with a
\* result displayed as an assistant message, whatever the shape of the model's
\* response (text, a call of calculate_crs_score, only calls of other names).
\* Stated here for the runs main() returns from.
C2_ResultDisplayed ==
    (RunOver /\ status = "ok" /\ prompt # None /\ RemoteFailures = {}) =>
        \/ Shown(Ev("chat_message", "assistant", "response"))
        \/ Shown(Ev("chat_message", "assistant", "tool_response"))

\* C3: no remote call is retried locally: a run issues at most one extraction
\* send_message, at most one is issued per click on 'Analyze Document for
\* Extraction' (none before the first click), and once an extraction has failed
\* uploaded_file_bytes is None until the next click.
C3_NoLocalRetry ==
    /\ since_press <= 1
    /\ ExtractionSends <= 1
    /\ ~Analyzed => since_press = 0
    /\ last_extract = "failed" => ss["uploaded_file_bytes"] = None

\* C3's case: an extraction failed and a later run, started by a chat input,
\* is over.
C3_Witness ==
    /\ RunOver
    /\ last_extract = "failed"
    /\ prompt # None
    /\ ExtractionSends = 0

\* C4: calculate_crs_score is deterministic and pure: any two invocations with
\* the same arguments returned the same result, whatever the session state and
\* the calls made before, and the invocation leaves the session state (the
\* chat and its history, extraction_done, uploaded_file_bytes) as it was.
C4_DeterministicPure ==
    /\ [](\A x \in tool_log : \A y \in tool_log : x.args = y.args => x.out = y.out)
    /\ [][pc = "exec" => (ss' = ss /\ chats' = chats)]_vars

\* C4's case: one run invoked the function twice on the same arguments (the
\* history grew in between).
C4_Witness ==
    /\ RunOver
    /\ ToolRuns = 2
    /\ Len(response.function_calls) = 2
    /\ response.function_calls[1].args = response.function_calls[2].args

\* C5: the chat session is created at most once per session, and once
\* st.session_state.chat is set no step replaces or removes it and its history
\* only grows: what it held before a step is a prefix of what it holds after.
C5_ChatSessionStable ==
    /\ [](Len(chats) <= 1)
    /\ [][ "chat" \in DOMAIN ss =>
             /\ "chat" \in DOMAIN ss'
             /\ ss'["chat"] = ss["chat"]
             /\ IsPrefix(chats[ss["chat"]], chats'[ss'["chat"]]) ]_vars

\* C5's case: the session has seen a failed extraction and its history holds
\* the messages of at least two successful exchanges.
C5_Witness ==
    /\ "chat" \in DOMAIN ss
    /\ Len(History) >= 4
    /\ last_extract = "failed"
    /\ RunOver

C7_NoClientNoSession ==
    env # "ok" =>
        /\ DOMAIN ss = {}
        /\ chats = << >>
        /\ \A i \in 1..Len(trace) : trace[i].ev # "send_message"
        /\ RunOver => (status = "returned" /\ ErrorShown)

\* C7's case: a run with an empty GEMINI_API_KEY is over.
C7_Witness == env = "key_empty" /\ RunOver /\ status = "returned"

\* C8: calculate_crs_score returns E + 15 * min(experience_years, 5) + L, with
\* E = 135 when the education contains 'Master' or 'PhD' (before 'Bachelor' is
\* looked at), 120 when it otherwise contains 'Bachelor', 30 otherwise, and
\* L = 10 * clb when clb >= 9, 5 * clb otherwise; the experience part is at
\* most 75.
C8_ScoreFormula ==
    pc = "tool_send" =>
        LET E == IF Contains("Master", args.education)
                    \/ Contains("PhD", args.education) THEN 135
                 ELSE IF Contains("Bachelor", args.education) THEN 120
                 ELSE 30
            X == IF args.experience_years < 5 THEN args.experience_years ELSE 5
            L == IF args.language_score_clb >= 9
                 THEN 10 * args.language_score_clb
                 ELSE 5 * args.language_score_clb
        IN  /\ tool_output.calculated_score = E + 15 * X + L
            /\ tool_output.calculated_score - E - L <= 75

\* C8's case: more than 5 years of experience, an education naming both
\* 'Bachelor' and 'Master', a CLB of at least 9.
C8_Witness ==
    /\ pc = "tool_send"
    /\ args.experience_years > 5
    /\ Contains("Bachelor", args.education) /\ Contains("Master", args.education)
    /\ args.language_score_clb >= 9
    /\ tool_output.calculated_score = 135 + 75 + 10 * args.language_score_clb

C10_SessionFieldsDefined ==
    /\ "chat" \in DOMAIN ss =>
         /\ { "extraction_done", "uploaded_file_bytes" } \subseteq DOMAIN ss
         /\ ss["extraction_done"] => Truthy(ss["uploaded_file_bytes"])
         /\ ss["uploaded_file_bytes"] # None =>
              { "uploaded_mime_type", "uploaded_file_name" } \subseteq DOMAIN ss
    /\ ~Shown(Ev("uncaught_exception", "AttributeError", ""))

\* C10's case: an extraction succeeded and the run went on past it.
C10_Witness ==
    /\ "chat" \in DOMAIN ss
    /\ ss["extraction_done"]
    /\ ss["uploaded_mime_type"] = "application/pdf"
    /\ pc = "chat"
====
